---- MODULE Spec2Model ----
(***************************************************************************)
(* The durable record store of canvas_notes                                *)
(* (backend/utils/fileOperations.js): lock file, snapshot, temp files,     *)
(* the two renames, checksum verification, recovery from backups.          *)
(*                                                                         *)
(* A file's text is a sequence of tokens ("[", "r1", ",", "]", ...); the   *)
(* absent file is NoFile.  Every `await` of the source is a point where    *)
(* other invocations may run, so every awaited file operation is a step.   *)
(***************************************************************************)
EXTENDS Integers, Sequences, FiniteSets, TLC

\* ------------------------------------------------------------------ bounds
MaxCalls == 2     \* calls started in one behaviour of Spec
MaxTicks == 1     \* clock advances in one behaviour of Spec
MaxConc == 2      \* calls running at once in Spec
MaxSeqCalls == 2  \* calls started in one behaviour of SpecSeq
MaxSeqTicks == 2  \* clock advances in one behaviour of SpecSeq
MaxWrites == 7    \* calls started in one behaviour of SpecWrites
MaxWriteTicks == 4 \* clock advances in one behaviour of SpecWrites
MaxFaults == 1    \* failing file operations in one behaviour of SpecFault
MaxRetryCalls == 2 \* calls started in one behaviour of SpecRetry
MaxRetryTicks == 3 \* clock advances in one behaviour of SpecRetry
MaxRequests == 2  \* HTTP requests in one behaviour of SpecHttp

\* ------------------------------------------------- FILE_CONFIG (lines 14-24)
BACKUP_COUNT == 5
MAX_RETRIES == 3
RETRY_DELAY == 200
LOCK_TIMEOUT_DEV == 2000
LOCK_TIMEOUT_PROD == 10000

Procs == {"p1", "p2", "p3"}

NoFile == <<"ENOENT">>

\* A note is a token: r1, r2, r3 as created, u1, u2, u3 after an update.
Records == {"r1", "r2", "r3", "u1", "u2", "u3"}

\* ---------------------------------------------------------------- values
\* A JavaScript value handed to atomicWrite or returned by safeRead.
Arr(s) == [type |-> "array", val |-> s]
Str(s) == [type |-> "string", val |-> s]
Null == [type |-> "null", val |-> <<>>]

\* JSON.stringify(data, null, 2) of an array of records.
RECURSIVE JSONitems(_)
JSONitems(s) ==
    IF Len(s) = 0 THEN <<>>
    ELSE IF Len(s) = 1 THEN <<s[1]>>
    ELSE <<s[1], ",">> \o JSONitems(Tail(s))

JSONstringify(v) == <<"[">> \o JSONitems(v.val) \o <<"]">>

\* JSON.parse: [ok, val]; ok = FALSE stands for the SyntaxError.
RECURSIVE ParseItems(_)
ParseItems(s) ==
    IF Len(s) = 0 THEN [ok |-> FALSE, val |-> <<>>]
    ELSE IF s[1] \notin Records THEN [ok |-> FALSE, val |-> <<>>]
    ELSE IF Len(s) = 1 THEN [ok |-> TRUE, val |-> <<s[1]>>]
    ELSE IF s[2] # "," THEN [ok |-> FALSE, val |-> <<>>]
    ELSE LET r == ParseItems(SubSeq(s, 3, Len(s)))
         IN  [ok |-> r.ok, val |-> IF r.ok THEN <<s[1]>> \o r.val ELSE <<>>]

JSONparse(t) ==
    IF Len(t) < 2 \/ t[1] # "[" \/ t[Len(t)] # "]"
    THEN [ok |-> FALSE, val |-> Null]
    ELSE IF Len(t) = 2 THEN [ok |-> TRUE, val |-> Arr(<<>>)]
    ELSE LET r == ParseItems(SubSeq(t, 2, Len(t) - 1))
         IN  [ok |-> r.ok, val |-> IF r.ok THEN Arr(r.val) ELSE Null]

\* Serialize with the JSON.stringify call forgotten.
SerializeNoStringify(data) == data.val

\* atomicWrite line 185: a string is written as it is, anything else as JSON.
Serialize(data) ==
    IF data.type = "string" THEN data.val ELSE JSONstringify(data)

\* safeRead lines 257-262: the parsed value, or the raw string.
ParseOrRaw(t) ==
    LET r == JSONparse(t) IN IF r.ok THEN r.val ELSE Str(t)

\* generateChecksum: SHA-256 is modelled as an injective tagging of the text.
generateChecksum(t) == <<"sha256">> \o t

\* String.prototype.trim on a checksum text: strips surrounding newlines.
RECURSIVE Trim(_)
Trim(t) ==
    IF Len(t) = 0 THEN t
    ELSE IF t[1] = "\n" THEN Trim(Tail(t))
    ELSE IF t[Len(t)] = "\n" THEN Trim(SubSeq(t, 1, Len(t) - 1))
    ELSE t

\* verifyChecksum lines 44-53 on the two texts it read.
VerifyTexts(data, savedChecksum) ==
    IF data = NoFile THEN [valid |-> FALSE, reason |-> "ENOENT"]
    ELSE IF savedChecksum = NoFile \/ savedChecksum = <<>>
         THEN [valid |-> FALSE, reason |-> "No checksum file"]
    ELSE IF generateChecksum(data) = Trim(savedChecksum)
         THEN [valid |-> TRUE, reason |-> "Valid"]
    ELSE [valid |-> FALSE, reason |-> "Checksum mismatch"]

\* ------------------------------------------------------------------ state
VARIABLES
    primaryFile,    \* text of P (filePath), or NoFile
    checksumFile,   \* text of P.checksum
    tempFile,       \* text of P.tmp
    checksumTemp,   \* text of P.checksum.tmp
    lockFile,       \* P.lock: [exists, json, pid, timestamp]
    backupDir,      \* the P.backup.<timestamp> files: set of [name, mtime, data]
    now,            \* Date.now(), in ms
    env,            \* process.env.NODE_ENV
    budget,         \* [calls, ticks]: invocations and clock advances still allowed
    inv,            \* per invocation slot: position and locals of the running call
    hist            \* the last call that returned: what a following call may rely on

vars == <<primaryFile, checksumFile, tempFile, checksumTemp, lockFile, backupDir,
          now, env, budget, inv, hist>>

files == <<primaryFile, checksumFile, tempFile, checksumTemp, lockFile, backupDir>>

\* FILE_CONFIG.LOCK_TIMEOUT, line 21.
LOCK_TIMEOUT == IF env = "development" THEN LOCK_TIMEOUT_DEV ELSE LOCK_TIMEOUT_PROD

\* MayRetry with <= for <.
MayRetryInclusive(retryCount) == retryCount <= MAX_RETRIES /\ env = "development"

\* The retry condition of lines 83 and 99.
MayRetry(retryCount) == retryCount < MAX_RETRIES /\ env = "development"

\* The backoff of lines 84 and 100: RETRY_DELAY * Math.pow(2, retryCount).
RetryDelay(retryCount) == RETRY_DELAY * (2 ^ retryCount)

\* IsStale with >= for >.
IsStaleInclusive(lockAge) == lockAge >= LOCK_TIMEOUT

\* The staleness test of line 79.
IsStale(lockAge) == lockAge > LOCK_TIMEOUT

NoLock == [exists |-> FALSE, json |-> FALSE, pid |-> "none", timestamp |-> 0]

Unread == <<"unread">>

\* An Error: what its message says (code), and the holder or reason it carries.
NoErr == [code |-> "", detail |-> ""]
Err(c, d) == [code |-> c, detail |-> d]

\* How a call ended; for a killed one, `at` is the time of its death.
NoRet == [kind |-> "none", val |-> Null, err |-> NoErr, at |-> 0]
RetOk(v) == [NoRet EXCEPT !.kind = "ok", !.val = v]
RetErr(e) == [NoRet EXCEPT !.kind = "error", !.err = e]

NoPre ==
    [primary |-> NoFile, checksum |-> NoFile, backups |-> {}, lockFree |-> TRUE,
     temp |-> NoFile, checksumTemp |-> NoFile]

\* An HTTP request on /api/notes (server.js lines 183-282) and its response.
NoReq ==
    [kind |-> "none", id |-> "", note |-> "", stage |-> "", sent |-> Null,
     status |-> 0, error |-> "", body |-> Null, rejected |-> {}, wrote |-> "none"]

NoHist == [op |-> "none", ret |-> NoRet, data |-> Null, alone |-> FALSE,
           pre |-> NoPre, renamed |-> {}, okWrites |-> 0]

\* getFileHealth's result as lines 351-358 build it.
NoStats ==
    [exists |-> FALSE, readable |-> FALSE,
     integrity |-> [valid |-> FALSE, reason |-> "File does not exist"],
     backupCount |-> 0, lastModified |-> "null", size |-> 0]

Idle ==
    [ pc |-> "idle", op |-> "none", data |-> Null,
      retryCount |-> 0, lockTs |-> 0, wakeAt |-> 0, lockPath |-> FALSE,
      renamed |-> {}, renameFailed |-> FALSE,
      vData |-> Unread, vSum |-> Unread,
      verification |-> [valid |-> FALSE, reason |-> ""],
      backupFiles |-> {}, pass |-> 0, inRecover |-> FALSE,
      stage |-> "", defaultData |-> Null, stats |-> NoStats, failed |-> {},
      sawAge |-> -1, err |-> NoErr, ret |-> NoRet,
      \* history kept for the properties, never read by an action's guard
      alone |-> FALSE, expect |-> NoHist,
      sawRetry |-> 0, pre |-> NoPre, retried |-> {}, lockRank |-> 0,
      \* the HTTP request this call is made for
      req |-> NoReq ]

\* Slots are taken in order: a new call runs in the first free one.
Before(q, p) == <<q, p>> \in {<<"p1", "p2">>, <<"p1", "p3">>, <<"p2", "p3">>}

Active(p) == inv[p].pc \notin {"idle", "done", "killed"}

\* ------------------------------------------------------------ initial states
T0 == 2 * LOCK_TIMEOUT_PROD

C0 == JSONstringify(Arr(<<"r1">>))
B0 == JSONstringify(Arr(<<"r2">>))
C1 == JSONstringify(Arr(<<"r1", "r2">>))
Garbage == <<"[", "r1">>

InitStores ==
    { [primary |-> NoFile,  checksum |-> NoFile],                          \* absent
      [primary |-> C0,      checksum |-> generateChecksum(C0)],            \* valid
      [primary |-> C0,      checksum |-> generateChecksum(C0) \o <<"\n">>],
      [primary |-> C0,      checksum |-> generateChecksum(B0)],            \* mismatch
      [primary |-> C0,      checksum |-> NoFile],                          \* no checksum
      [primary |-> Garbage, checksum |-> generateChecksum(Garbage)] }      \* valid, not JSON

Backup(t, text) == [name |-> t, mtime |-> t, data |-> text]

InitBackups ==
    { {},
      {Backup(100, B0)},
      {Backup(100, B0), Backup(150, C1), Backup(200, Garbage)},
      {Backup(200, Garbage)} }

\* A lock file left by a holder that died `age` ms ago.
OrphanLock(age) ==
    [exists |-> TRUE, json |-> TRUE, pid |-> "gone", timestamp |-> T0 - age]

LongDead == {OrphanLock(LOCK_TIMEOUT_PROD + 1)}

JustDead == {OrphanLock(a) : a \in {LOCK_TIMEOUT_DEV, LOCK_TIMEOUT_DEV + 1,
                                     LOCK_TIMEOUT_PROD}}

Envs == {"development", "production"}

WriteInputs == {Arr(<<"r1">>), Arr(<<"r1", "r2">>)}

InitCommon(stores, backups, locks, envs) ==
    /\ \E s \in stores : primaryFile = s.primary /\ checksumFile = s.checksum
    /\ tempFile = NoFile
    /\ checksumTemp = NoFile
    /\ lockFile \in {NoLock} \cup locks
    /\ backupDir \in backups
    /\ now = T0
    /\ env \in envs
    /\ inv = [p \in Procs |-> Idle]
    /\ hist = NoHist

\* Overlapping calls.
Init ==
    /\ InitCommon({s \in InitStores : VerifyTexts(s.primary, s.checksum).reason
                                          \in {"Valid"}
                                       /\ Trim(s.checksum) = s.checksum
                                       /\ s.primary = C0},
                  {{Backup(100, B0)}}, LongDead, Envs)
    /\ budget = [calls |-> MaxCalls, ticks |-> MaxTicks, conc |-> MaxConc, faults |-> 0]

\* One call at a time.
InitSeq ==
    /\ InitCommon(InitStores, InitBackups, LongDead \cup JustDead, Envs)
    /\ budget = [calls |-> MaxSeqCalls, ticks |-> MaxSeqTicks, conc |-> 1, faults |-> 0]

\* Lines 65-74, run without suspension when createLock is called:
\* lockData.timestamp = Date.now(), then the existsSync test.
CreateLockEntry(rec) ==
    [rec EXCEPT !.lockTs = now,
                !.pc = IF lockFile.exists THEN "readLock" ELSE "openLock"]

\* ------------------------------------- the HTTP handlers, server.js 145-282
NoteId(n) == IF n \in {"r1", "u1"} THEN "1" ELSE IF n \in {"r2", "u2"} THEN "2" ELSE "3"

\* Lines 233-238: the note with the request's fields laid over it.
Updated(n) == IF NoteId(n) = "1" THEN "u1" ELSE IF NoteId(n) = "2" THEN "u2" ELSE "u3"

\* Line 227: notes.findIndex(n => n.id === req.params.id); 0 stands for -1.
FindIndex(s, id) ==
    IF \E i \in 1..Len(s) : NoteId(s[i]) = id
    THEN CHOOSE i \in 1..Len(s) :
            NoteId(s[i]) = id /\ \A j \in 1..(i - 1) : NoteId(s[j]) # id
    ELSE 0

\* Line 261: notes.filter(n => n.id !== req.params.id).
RECURSIVE Filter(_, _)
Filter(s, id) ==
    IF Len(s) = 0 THEN <<>>
    ELSE IF NoteId(s[1]) = id THEN Filter(Tail(s), id)
    ELSE <<s[1]>> \o Filter(Tail(s), id)

\* Line 148: data || [] (null and the empty string are falsy).
OrEmpty(v) == IF v = Null \/ v = Str(<<>>) THEN Arr(<<>>) ELSE v

\* res.status(status).json(...): the handler is over.
Respond(rec, status, error, body) ==
    [rec EXCEPT !.pc = "done",
                !.req.stage = "responded", !.req.status = status,
                !.req.error = error, !.req.body = body]

\* The error text of each handler: [kind][1] when writeNotes returned false
\* (lines 210, 242, 269), [kind][2] in its catch block (lines 220, 253, 280).
ErrorText ==
    [POST   |-> <<"Failed to save note", "Failed to create note">>,
     PUT    |-> <<"Failed to update note", "Failed to update note">>,
     DELETE |-> <<"Failed to delete note", "Failed to delete note">>]

\* A call made by a handler: a fresh invocation that keeps the request.
CallFor(rec, call) ==
    [call EXCEPT !.req = rec.req, !.alone = rec.alone, !.expect = rec.expect,
                 !.pre = rec.pre, !.lockRank = rec.lockRank]

\* writeNotes(notes), lines 166-168: atomicWrite is called, createLock with it.
WriteNotes(rec, notes) ==
    CallFor([rec EXCEPT !.req.stage = "write", !.req.sent = notes],
            CreateLockEntry([Idle EXCEPT !.op = "atomicWrite", !.data = notes]))

\* The handler once readNotes has returned `notes`: lines 186, 200-208,
\* 227-240, 260-267.  A string has no push, findIndex or filter: the TypeError
\* lands in the handler's catch block.
Handle(rec, notes) ==
    LET k == rec.req.kind
        i == FindIndex(notes.val, rec.req.id)
    IN  IF k = "GET" THEN Respond(rec, 200, "", notes)
        ELSE IF notes.type # "array" THEN Respond(rec, 500, ErrorText[k][2], Null)
        ELSE IF k = "POST"
             THEN WriteNotes(rec, Arr(Append(notes.val, rec.req.note)))
        ELSE IF k = "PUT"
             THEN IF i = 0 THEN Respond(rec, 404, "Note not found", Null)
                  ELSE WriteNotes(rec, Arr([notes.val EXCEPT ![i] = Updated(@)]))
        ELSE IF Filter(notes.val, rec.req.id) = notes.val
             THEN Respond(rec, 404, "Note not found", Null)
             ELSE WriteNotes(rec, Arr(Filter(notes.val, rec.req.id)))

\* readNotes' catch block, lines 157-158: initializeFile(NOTES_FILE, []) is
\* called, with its existence test (line 325) and what follows it at once.
ReadNotesFallback(rec) ==
    LET r == [rec EXCEPT !.req.stage = "initializeFile",
                         !.req.rejected = @ \cup {"safeRead"}]
    IN  CallFor(r,
          IF primaryFile = NoFile
          THEN CreateLockEntry([Idle EXCEPT !.op = "initializeFile",
                                            !.data = Arr(<<>>),
                                            !.defaultData = Arr(<<>>),
                                            !.stage = "tryWrite"])
          ELSE [Idle EXCEPT !.pc = "verify", !.op = "initializeFile",
                            !.defaultData = Arr(<<>>), !.stage = "read"])

\* ReadNotesGivesUp with the error of initializeFile thrown on to the handler,
\* whose catch block answers.
ReadNotesThrows(rec) ==
    Respond([rec EXCEPT !.req.rejected = @ \cup {"initializeFile"}], 500,
            IF rec.req.kind = "GET" THEN "Failed to fetch notes"
            ELSE ErrorText[rec.req.kind][2], Null)

\* readNotes, lines 159-162: initializeFile threw too, the handler gets [].
ReadNotesGivesUp(rec) ==
    Handle([rec EXCEPT !.req.rejected = @ \cup {"initializeFile"}], Arr(<<>>))

\* WriteNotesReturns with writeNotes returning true from its catch block too.
WriteNotesAlwaysTrue(rec) ==
    Respond([rec EXCEPT !.req.wrote = rec.ret.kind],
            IF rec.req.kind = "POST" THEN 201 ELSE 200, "", rec.req.sent)

\* writeNotes returns true, or false from its catch block (lines 169, 177), and
\* the handler responds (lines 209-213, 241-245, 268-272).
WriteNotesReturns(rec) ==
    IF rec.ret.kind = "ok"
    THEN Respond([rec EXCEPT !.req.wrote = "ok"],
                 IF rec.req.kind = "POST" THEN 201 ELSE 200, "", rec.req.sent)
    ELSE Respond([rec EXCEPT !.req.wrote = "error"],
                 500, ErrorText[rec.req.kind][1], Null)

\* The store call a handler awaited has returned or thrown: the handler goes on
\* in the same turn of the event loop.
\*   safeRead (lines 147-149), initializeFile (lines 158-161),
\*   atomicWrite in writeNotes (lines 168-177) and the response (208-213,
\*   240-245, 267-272).
Deliver(rec) ==
    IF rec.pc # "done" \/ rec.req.kind = "none" \/ rec.ret.kind \notin {"ok", "error"}
    THEN rec
    ELSE IF rec.req.stage = "safeRead"
    THEN IF rec.ret.kind = "ok" THEN Handle(rec, OrEmpty(rec.ret.val))
         ELSE ReadNotesFallback(rec)
    ELSE IF rec.req.stage = "initializeFile"
    THEN IF rec.ret.kind = "ok" THEN Handle(rec, rec.ret.val)
         ELSE ReadNotesGivesUp(rec)
    ELSE IF rec.req.stage = "write" THEN WriteNotesReturns(rec)
    ELSE rec

\* ------------------------------------------------------------ bookkeeping
Summary(rec) ==
    [op |-> rec.op, ret |-> rec.ret, data |-> rec.data, alone |-> rec.alone,
     pre |-> rec.pre, renamed |-> rec.renamed,
     okWrites |-> IF rec.op = "atomicWrite" /\ rec.ret.kind = "ok"
                  THEN hist.okWrites + 1 ELSE hist.okWrites]

\* Invocation p moves to rec, the handler that awaited it goes on; a call that
\* returns leaves its summary in hist.
Step(p, rec) ==
    /\ inv' = [inv EXCEPT ![p] = Deliver(rec)]
    /\ hist' = IF Deliver(rec).pc = "done" THEN Summary(Deliver(rec)) ELSE hist

\* What a call finds when it starts.
Store ==
    [primary |-> primaryFile, checksum |-> checksumFile, backups |-> backupDir,
     lockFree |-> ~lockFile.exists
                  \/ (lockFile.json /\ IsStale(now - lockFile.timestamp)),
     temp |-> tempFile, checksumTemp |-> checksumTemp]

\* A new top-level call in slot p; the calls it overlaps are no longer alone.
Begin(p, rec) ==
    /\ inv[p].pc \in {"idle", "done"}
    /\ \A q \in Procs : Before(q, p) => Active(q)
    /\ Cardinality({q \in Procs : Active(q)}) < budget.conc
    /\ budget.calls > 0
    /\ budget' = [budget EXCEPT !.calls = @ - 1]
    /\ inv' = [q \in Procs |->
                 IF q = p
                 THEN [rec EXCEPT !.alone = \A r \in Procs \ {p} : ~Active(r),
                                  !.expect = IF \A r \in Procs \ {p} : ~Active(r)
                                             THEN hist ELSE NoHist,
                                  !.pre = Store]
                 ELSE IF Active(q) THEN [inv[q] EXCEPT !.alone = FALSE]
                 ELSE inv[q]]

\* ------------------------------------------------- createLock, lines 64-109
\* atomicWrite(filePath, data) is called (line 172) and calls createLock (line 179).
StartWrite(p, d) ==
    /\ Begin(p, CreateLockEntry([Idle EXCEPT !.op = "atomicWrite", !.data = d]))
    /\ hist' = hist
    /\ UNCHANGED <<files, now, env>>

\* createLock fails: atomicWrite's catch runs with lockPath still null.
LockFailed(rec, e) == [rec EXCEPT !.pc = "catch", !.err = e]

\* Lines 86-87 and 102-103: sleep, then createLock(filePath, retryCount + 1).
Backoff(rec) ==
    [rec EXCEPT !.pc = "sleep", !.wakeAt = now + RetryDelay(rec.retryCount)]

\* Lines 75-90: read the existing lock, compute its age, decide.
ReadLock(p) ==
    /\ inv[p].pc = "readLock"
    /\ LET rec == inv[p]
           lockAge == now - lockFile.timestamp
       IN  Step(p,
             IF ~lockFile.exists THEN LockFailed(rec, Err("ENOENT", ""))
             ELSE IF ~lockFile.json THEN LockFailed(rec, Err("SyntaxError", ""))
             ELSE IF IsStale(lockAge)
                  THEN [rec EXCEPT !.pc = "unlinkLock", !.sawAge = lockAge,
                                   !.sawRetry = rec.retryCount]
             ELSE IF MayRetry(rec.retryCount)
                  THEN [Backoff(rec) EXCEPT !.retried = @ \cup {"exists"}]
             ELSE LockFailed(rec, Err("File is locked by PID", lockFile.pid)))
    /\ UNCHANGED <<files, now, env, budget>>

\* Line 80: fs.unlink(lockPath).catch(() => {}) removes whatever lock is there.
UnlinkLock(p) ==
    /\ inv[p].pc = "unlinkLock"
    /\ lockFile' = NoLock
    /\ Step(p, [inv[p] EXCEPT !.pc = "openLock"])
    /\ UNCHANGED <<primaryFile, checksumFile, tempFile, checksumTemp, backupDir,
                   now, env, budget>>

\* Line 94, the open of writeFile(..., {flag: 'wx'}): exclusive creation, or EEXIST
\* (lines 97-106).
OpenLock(p) ==
    /\ inv[p].pc = "openLock"
    /\ LET rec == inv[p]
       IN  IF lockFile.exists
           THEN /\ Step(p, IF MayRetry(rec.retryCount)
                           THEN [Backoff(rec) EXCEPT !.retried = @ \cup {"EEXIST"}]
                           ELSE LockFailed(rec,
                                  Err("File is currently locked by another process", "")))
                /\ lockFile' = lockFile
           ELSE /\ Step(p, [rec EXCEPT !.pc = "fillLock"])
                /\ lockFile' = [exists |-> TRUE, json |-> FALSE, pid |-> p, timestamp |-> 0]
    /\ UNCHANGED <<primaryFile, checksumFile, tempFile, checksumTemp, backupDir,
                   now, env, budget>>

\* The place of a createLock that returns now among those that have returned:
\* one more than the calls still on record have.
NextRank ==
    1 + (CHOOSE n \in {inv[q].lockRank : q \in Procs} :
            \A q \in Procs : inv[q].lockRank <= n)

\* FillLock with step 2 of atomicWrite left out.
FillLockNoSnapshot(p) ==
    /\ inv[p].pc = "fillLock"
    /\ lockFile' = IF lockFile.exists /\ ~lockFile.json /\ lockFile.pid = p
                   THEN [exists |-> TRUE, json |-> TRUE, pid |-> p,
                         timestamp |-> inv[p].lockTs]
                   ELSE lockFile
    /\ Step(p, [inv[p] EXCEPT !.pc = "writeTemp", !.lockPath = TRUE,
                              !.lockRank = NextRank])
    /\ UNCHANGED <<primaryFile, checksumFile, tempFile, checksumTemp, backupDir,
                   now, env, budget>>

\* Line 94, the write of writeFile: the lock data reach the file this call created
\* (if it is still there), and createLock returns lockPath (line 95).
FillLock(p) ==
    /\ inv[p].pc = "fillLock"
    /\ lockFile' = IF lockFile.exists /\ ~lockFile.json /\ lockFile.pid = p
                   THEN [exists |-> TRUE, json |-> TRUE, pid |-> p,
                         timestamp |-> inv[p].lockTs]
                   ELSE lockFile
    /\ Step(p, [inv[p] EXCEPT !.pc = "createBackup", !.lockPath = TRUE,
                              !.lockRank = NextRank])
    /\ UNCHANGED <<primaryFile, checksumFile, tempFile, checksumTemp, backupDir,
                   now, env, budget>>

\* The sleep of line 86/102 is over; line 87/103 calls createLock again.
Wake(p) ==
    /\ inv[p].pc = "sleep"
    /\ now >= inv[p].wakeAt
    /\ Step(p, CreateLockEntry([inv[p] EXCEPT !.retryCount = @ + 1]))
    /\ UNCHANGED <<files, now, env, budget>>

\* ------------------------------------------------ backups, lines 126-167
\* Line 130-131: the backup's name is the millisecond timestamp.
BackupName(t) == t

\* createBackup: no primary, no backup; else copyFile onto the timestamped name
\* (replacing a file of that name).
CopyToBackup(dir, t, text) ==
    IF text = NoFile THEN dir
    ELSE {b \in dir : b.name # BackupName(t)} \cup
         {[name |-> BackupName(t), mtime |-> t, data |-> text]}

\* The files cleanupBackups may keep: BACKUP_COUNT of them, none older than a
\* removed one (line 157 sorts newest first, line 160 slices).
KeepSets(dir) ==
    {K \in SUBSET dir :
        /\ Cardinality(K) = IF Cardinality(dir) < BACKUP_COUNT
                            THEN Cardinality(dir) ELSE BACKUP_COUNT
        /\ \A k \in K, r \in dir \ K : k.mtime >= r.mtime}

\* ------------------------------------------------ atomicWrite, lines 172-226
InWrite(rec) ==
    rec.op = "atomicWrite" \/ rec.inRecover \/ rec.stage \in {"tryWrite", "lastWrite"}

\* Step 2, line 182.
CreateBackup(p) ==
    /\ inv[p].pc = "createBackup"
    /\ backupDir' = CopyToBackup(backupDir, now, primaryFile)
    /\ Step(p, [inv[p] EXCEPT !.pc = "writeTemp"])
    /\ UNCHANGED <<primaryFile, checksumFile, tempFile, checksumTemp, lockFile,
                   now, env, budget>>

\* Step 3, lines 185-186.
WriteTemp(p) ==
    /\ inv[p].pc = "writeTemp"
    /\ tempFile' = Serialize(inv[p].data)
    /\ Step(p, [inv[p] EXCEPT !.pc = "writeChecksumTemp"])
    /\ UNCHANGED <<primaryFile, checksumFile, checksumTemp, lockFile, backupDir,
                   now, env, budget>>

\* Step 4, lines 189-190.
WriteChecksumTemp(p) ==
    /\ inv[p].pc = "writeChecksumTemp"
    /\ checksumTemp' = generateChecksum(Serialize(inv[p].data))
    /\ Step(p, [inv[p] EXCEPT !.pc = "rename"])
    /\ UNCHANGED <<primaryFile, checksumFile, tempFile, lockFile, backupDir,
                   now, env, budget>>

\* After one of the two renames of step 5: when both are settled, Promise.all
\* resolves (step 6 follows) or has rejected (the catch of line 210).
AfterRename(rec, which, failed) ==
    LET done == rec.renamed \cup {which}
        bad == rec.renameFailed \/ failed
    IN  [rec EXCEPT !.renamed = done,
                    !.renameFailed = bad,
                    !.err = IF bad THEN Err("rename failed", "") ELSE rec.err,
                    !.pc = IF done # {"data", "checksum"} THEN "rename"
                           ELSE IF bad THEN "catch" ELSE "verify"]

\* Line 194: fs.rename(tempPath, filePath).  Once the other rename has failed the
\* catch block is already running, and its unlink may come first.
RenameData(p) ==
    /\ inv[p].pc = "rename"
    /\ "data" \notin inv[p].renamed
    /\ \/ /\ tempFile # NoFile
          /\ primaryFile' = tempFile
          /\ tempFile' = NoFile
          /\ Step(p, AfterRename(inv[p], "data", FALSE))
       \/ /\ tempFile = NoFile \/ inv[p].renameFailed
          /\ UNCHANGED <<primaryFile, tempFile>>
          /\ Step(p, AfterRename(inv[p], "data", TRUE))
    /\ UNCHANGED <<checksumFile, checksumTemp, lockFile, backupDir, now, env, budget>>

\* Line 195: fs.rename(checksumPath + '.tmp', checksumPath).
RenameChecksum(p) ==
    /\ inv[p].pc = "rename"
    /\ "checksum" \notin inv[p].renamed
    /\ \/ /\ checksumTemp # NoFile
          /\ checksumFile' = checksumTemp
          /\ checksumTemp' = NoFile
          /\ Step(p, AfterRename(inv[p], "checksum", FALSE))
       \/ /\ checksumTemp = NoFile \/ inv[p].renameFailed
          /\ UNCHANGED <<checksumFile, checksumTemp>>
          /\ Step(p, AfterRename(inv[p], "checksum", TRUE))
    /\ UNCHANGED <<primaryFile, tempFile, lockFile, backupDir, now, env, budget>>

\* verifyChecksum has both texts (lines 44-50): step 6 of atomicWrite
\* (lines 199-202), or safeRead's check (lines 239-252).
AfterVerify(rec) ==
    LET v == VerifyTexts(rec.vData, rec.vSum)
        r == [rec EXCEPT !.vData = Unread, !.vSum = Unread]
    IN  IF rec.vData = Unread \/ rec.vSum = Unread THEN rec
        ELSE IF rec.op = "getFileHealth"
        THEN [r EXCEPT !.stats.integrity = v, !.pc = "countBackups"]
        ELSE IF InWrite(rec)
        THEN IF v.valid THEN [r EXCEPT !.pc = "cleanupBackups"]
             ELSE [r EXCEPT !.pc = "catch",
                            !.err = Err("Data integrity check failed", v.reason)]
        ELSE IF v.valid THEN [r EXCEPT !.pc = "readFile"]
             ELSE [r EXCEPT !.pc = "listBackups", !.verification = v, !.pass = 1]

\* Line 40: fs.readFile(filePath).
ReadData(p) ==
    /\ inv[p].pc = "verify"
    /\ inv[p].vData = Unread
    /\ Step(p, AfterVerify([inv[p] EXCEPT !.vData = primaryFile]))
    /\ UNCHANGED <<files, now, env, budget>>

\* Line 41: fs.readFile(checksumPath).catch(() => null).
ReadChecksum(p) ==
    /\ inv[p].pc = "verify"
    /\ inv[p].vSum = Unread
    /\ Step(p, AfterVerify([inv[p] EXCEPT !.vSum = checksumFile]))
    /\ UNCHANGED <<files, now, env, budget>>

\* LastAttempt with the catch block of line 332 throwing the error on.
NoLastAttempt(rec) ==
    [rec EXCEPT !.pc = "done", !.ret = RetErr(Err("Failed to initialize file", ""))]

\* initializeFile lines 332-342: whatever was thrown in the try block, one more
\* atomicWrite(filePath, defaultData); its error is the one thrown to the caller.
LastAttempt(rec) ==
    CreateLockEntry([rec EXCEPT !.stage = "lastWrite", !.data = rec.defaultData,
                                !.inRecover = FALSE, !.retryCount = 0,
                                !.lockPath = FALSE, !.renamed = {},
                                !.renameFailed = FALSE, !.err = NoErr, !.sawAge = -1])

\* safeRead returns or throws (lines 235, 247, 251, 258-261, 271, 274): to the
\* top-level caller, or to initializeFile (line 331), which returns what safeRead
\* returned and goes to its catch block when safeRead threw.
SafeReadReturns(rec, ret) ==
    IF rec.op = "initializeFile" /\ ret.kind = "error" THEN LastAttempt(rec)
    ELSE [rec EXCEPT !.pc = "done", !.ret = ret]

\* atomicWrite returns or throws to its caller: the top-level caller, the loop
\* of recoverFromBackup (lines 303-310), which returns the parsed backup on
\* success and goes on to the next backup on failure, or initializeFile
\* (lines 327-328 and 337-341).
ReturnFromWrite(rec) ==
    IF rec.inRecover
    THEN IF rec.err = NoErr THEN SafeReadReturns(rec, RetOk(rec.data))
         ELSE [rec EXCEPT !.pc = "tryBackup"]
    ELSE IF rec.stage = "tryWrite" /\ rec.err # NoErr THEN LastAttempt(rec)
    ELSE [rec EXCEPT !.pc = "done",
                     !.ret = IF rec.err = NoErr THEN RetOk(rec.data) ELSE RetErr(rec.err)]

\* Step 7, line 205, then line 208; the finally of line 220 follows.
CleanupBackups(p) ==
    /\ inv[p].pc = "cleanupBackups"
    /\ backupDir' \in KeepSets(backupDir)
    /\ Step(p, [inv[p] EXCEPT !.pc = "releaseLock"])
    /\ UNCHANGED <<primaryFile, checksumFile, tempFile, checksumTemp, lockFile,
                   now, env, budget>>

\* Catch with the unlink of line 216 left out.
CatchKeepsChecksumTemp(p) ==
    /\ inv[p].pc = "catch"
    /\ tempFile' = NoFile
    /\ Step(p, IF inv[p].lockPath THEN [inv[p] EXCEPT !.pc = "releaseLock"]
               ELSE ReturnFromWrite(inv[p]))
    /\ UNCHANGED <<primaryFile, checksumFile, checksumTemp, lockFile, backupDir,
                   now, env, budget>>

\* Lines 210-219: the temp files are unlinked, the error is thrown again.
Catch(p) ==
    /\ inv[p].pc = "catch"
    /\ tempFile' = NoFile
    /\ checksumTemp' = NoFile
    /\ Step(p, IF inv[p].lockPath THEN [inv[p] EXCEPT !.pc = "releaseLock"]
               ELSE ReturnFromWrite(inv[p]))
    /\ UNCHANGED <<primaryFile, checksumFile, lockFile, backupDir, now, env, budget>>

\* A createLock entered in the step that removed the lock file finds none
\* (line 74).
AfterUnlink(rec) == IF rec.pc = "readLock" THEN [rec EXCEPT !.pc = "openLock"] ELSE rec

\* ReleaseLock as if line 223 stood at the end of the try block.
ReleaseLockOnSuccess(p) ==
    /\ inv[p].pc = "releaseLock"
    /\ lockFile' = IF inv[p].err = NoErr THEN NoLock ELSE lockFile
    /\ Step(p, ReturnFromWrite([inv[p] EXCEPT !.lockPath = FALSE]))
    /\ UNCHANGED <<primaryFile, checksumFile, tempFile, checksumTemp, backupDir,
                   now, env, budget>>

\* Lines 220-225 and 114-121: fs.unlink(lockPath), whoever wrote that file.
ReleaseLock(p) ==
    /\ inv[p].pc = "releaseLock"
    /\ lockFile' = NoLock
    /\ Step(p, AfterUnlink(Deliver(ReturnFromWrite([inv[p] EXCEPT !.lockPath = FALSE]))))
    /\ UNCHANGED <<primaryFile, checksumFile, tempFile, checksumTemp, backupDir,
                   now, env, budget>>

\* --------------------------------------------------- safeRead, lines 231-276
\* StartRead going to the backups when there is no primary.
StartReadRecovers(p) ==
    /\ Begin(p, IF primaryFile = NoFile
                THEN [Idle EXCEPT !.pc = "listBackups", !.op = "safeRead", !.pass = 1,
                                  !.verification = [valid |-> FALSE, reason |-> "ENOENT"]]
                ELSE [Idle EXCEPT !.pc = "verify", !.op = "safeRead"])
    /\ hist' = hist
    /\ UNCHANGED <<files, now, env>>

\* Lines 232-239: no primary, null; else verifyChecksum is started.
StartRead(p) ==
    /\ Begin(p, IF primaryFile = NoFile
                THEN [Idle EXCEPT !.pc = "done", !.op = "safeRead", !.ret = RetOk(Null)]
                ELSE [Idle EXCEPT !.pc = "verify", !.op = "safeRead"])
    /\ hist' = IF primaryFile = NoFile THEN Summary(inv'[p]) ELSE hist
    /\ UNCHANGED <<files, now, env>>

\* Lines 255-262: read the verified primary, parse it or return the raw string.
\* A read that fails lands in the catch of line 264, which tries recovery.
ReadFile(p) ==
    /\ inv[p].pc = "readFile"
    /\ Step(p, IF primaryFile = NoFile
               THEN [inv[p] EXCEPT !.pc = "listBackups", !.pass = 2,
                                   !.verification = [valid |-> FALSE, reason |-> "ENOENT"]]
               ELSE SafeReadReturns(inv[p], RetOk(ParseOrRaw(primaryFile))))
    /\ UNCHANGED <<files, now, env, budget>>

\* ---------------------------------------------- initializeFile, lines 323-344
\* StartInit without the existence test of line 325.
StartInitAlwaysWrites(p, d) ==
    /\ Begin(p, CreateLockEntry([Idle EXCEPT !.op = "initializeFile", !.data = d,
                                             !.defaultData = d, !.stage = "tryWrite"]))
    /\ hist' = hist
    /\ UNCHANGED <<files, now, env>>

\* initializeFile(filePath, defaultData) is called: no primary, atomicWrite of
\* the default (lines 325-328); else safeRead (line 331), whose existence test and
\* call of verifyChecksum follow without suspension.
StartInit(p, d) ==
    /\ Begin(p, IF primaryFile = NoFile
                THEN CreateLockEntry([Idle EXCEPT !.op = "initializeFile", !.data = d,
                                                  !.defaultData = d, !.stage = "tryWrite"])
                ELSE [Idle EXCEPT !.pc = "verify", !.op = "initializeFile",
                                  !.defaultData = d, !.stage = "read"])
    /\ hist' = hist
    /\ UNCHANGED <<files, now, env>>

\* ----------------------------------------------- getFileHealth, lines 349-400
\* Stats0 with readable starting as true.
Stats0Readable(exists) == [NoStats EXCEPT !.exists = exists, !.readable = exists]

\* Lines 351-358: the stats object before any file is looked at.
Stats0(exists) == [NoStats EXCEPT !.exists = exists]

\* getFileHealth(filePath) is called: lines 351-362.
StartHealth(p) ==
    /\ Begin(p, [Idle EXCEPT !.op = "getFileHealth",
                             !.stats = Stats0(primaryFile # NoFile),
                             !.pc = IF primaryFile = NoFile THEN "done" ELSE "stat",
                             !.ret = IF primaryFile = NoFile THEN RetOk(Null) ELSE NoRet])
    /\ hist' = IF primaryFile = NoFile THEN Summary(inv'[p]) ELSE hist
    /\ UNCHANGED <<files, now, env>>

\* Lines 364-374: fs.stat gives size and mtime, or throws into the catch of line
\* 369; verifyChecksum is called next.
HealthStat(p) ==
    /\ inv[p].pc = "stat"
    /\ Step(p, IF primaryFile = NoFile
               THEN [inv[p] EXCEPT !.pc = "verify", !.failed = @ \cup {"stat"}]
               ELSE [inv[p] EXCEPT !.pc = "verify",
                                   !.stats.readable = TRUE,
                                   !.stats.size = Len(primaryFile),
                                   !.stats.lastModified = "mtime"])
    /\ UNCHANGED <<files, now, env, budget>>

\* fs.stat is rejected (EACCES, EIO, ...): line 369-371.
HealthStatFails(p) ==
    /\ inv[p].pc = "stat"
    /\ budget.faults > 0
    /\ budget' = [budget EXCEPT !.faults = @ - 1]
    /\ Step(p, [inv[p] EXCEPT !.pc = "verify", !.failed = @ \cup {"stat"}])
    /\ UNCHANGED <<files, now, env>>

\* fs.readFile(filePath) is rejected inside verifyChecksum (line 40): the catch of
\* line 51 makes the error's message the reason.
ReadDataFails(p) ==
    /\ inv[p].pc = "verify"
    /\ inv[p].vData = Unread
    /\ budget.faults > 0
    /\ budget' = [budget EXCEPT !.faults = @ - 1]
    /\ Step(p, AfterVerify([inv[p] EXCEPT !.vData = NoFile, !.failed = @ \cup {"read"}]))
    /\ UNCHANGED <<files, now, env>>

\* Lines 377-388: count the backup files, return the stats.
HealthReaddir(p) ==
    /\ inv[p].pc = "countBackups"
    /\ Step(p, [inv[p] EXCEPT !.pc = "done", !.ret = RetOk(Null),
                              !.stats.backupCount = Cardinality(backupDir)])
    /\ UNCHANGED <<files, now, env, budget>>

\* fs.readdir is rejected: the catch of line 384 leaves backupCount at 0.
HealthReaddirFails(p) ==
    /\ inv[p].pc = "countBackups"
    /\ budget.faults > 0
    /\ budget' = [budget EXCEPT !.faults = @ - 1]
    /\ Step(p, [inv[p] EXCEPT !.pc = "done", !.ret = RetOk(Null),
                              !.failed = @ \cup {"readdir"}])
    /\ UNCHANGED <<files, now, env>>

\* ------------------------------------------- recoverFromBackup, lines 281-318
\* RecoveryFailed with safeRead returning null where it has to throw.
RecoveryReturnsNull(rec) == [rec EXCEPT !.pc = "done", !.ret = RetOk(Null)]

\* recoverFromBackup found nothing (line 313).  In safeRead's try block that
\* throws (line 251) into the catch of line 264, which recovers once more; there
\* the error is thrown to the caller (line 274).
RecoveryFailed(rec) ==
    IF rec.pass = 1
    THEN [rec EXCEPT !.pc = "listBackups", !.pass = 2]
    ELSE SafeReadReturns(rec, RetErr(Err("Data corruption detected and recovery failed",
                                         rec.verification.reason)))

\* Lines 285-294: the directory listing with each file's mtime.
ListBackups(p) ==
    /\ inv[p].pc = "listBackups"
    /\ LET listing == {[name |-> b.name, mtime |-> b.mtime] : b \in backupDir}
       IN  Step(p, IF listing = {} THEN RecoveryFailed(inv[p])
                   ELSE [inv[p] EXCEPT !.pc = "tryBackup", !.backupFiles = listing])
    /\ UNCHANGED <<files, now, env, budget>>

\* Newest with the sort of line 294 ascending.
Oldest(listing) == {b \in listing : \A c \in listing : b.mtime <= c.mtime}

\* The next entries of the sorted list (line 294: newest first).
Newest(listing) == {b \in listing : \A c \in listing : b.mtime >= c.mtime}

\* Lines 297-311, one turn of the loop: read and parse the backup; a backup that
\* cannot be read or parsed is skipped, a parsed one goes to atomicWrite.
TryBackup(p) ==
    /\ inv[p].pc = "tryBackup"
    /\ LET rec == inv[p]
       IN  IF rec.backupFiles = {} THEN Step(p, RecoveryFailed(rec))
           ELSE \E b \in Newest(rec.backupFiles) :
                  LET rest == rec.backupFiles \ {b}
                      onDisk == {f \in backupDir : f.name = b.name}
                      parsed == IF onDisk = {} THEN [ok |-> FALSE, val |-> Null]
                                ELSE JSONparse((CHOOSE f \in onDisk : TRUE).data)
                  IN  Step(p, IF parsed.ok
                              THEN CreateLockEntry(
                                     [rec EXCEPT !.backupFiles = rest,
                                                 !.data = parsed.val, !.inRecover = TRUE,
                                                 !.retryCount = 0, !.lockPath = FALSE,
                                                 !.renamed = {}, !.renameFailed = FALSE,
                                                 !.err = NoErr, !.sawAge = -1])
                              ELSE [rec EXCEPT !.backupFiles = rest])
    /\ UNCHANGED <<files, now, env, budget>>

\* ------------------------------------------------------------------ clock
\* The times at which something changes: the next millisecond, the end of a
\* sleep, the moment the lock file reaches and passes LOCK_TIMEOUT.
TickTargets ==
    {now + 1}
    \cup {inv[p].wakeAt : p \in {q \in Procs : inv[q].pc = "sleep"}}
    \cup (IF lockFile.exists /\ lockFile.json /\ \E p \in Procs : inv[p].pc = "readLock"
          THEN {lockFile.timestamp + LOCK_TIMEOUT, lockFile.timestamp + LOCK_TIMEOUT + 1}
          ELSE {})

\* The clock is read by Date.now() (lines 68, 76), new Date() (line 130) and the
\* timer of sleep (line 59); between two such reads its value is not observed, so
\* it is advanced only when a call is about to read it.
ReadsClock(p) ==
    \/ inv[p].pc \in {"readLock", "createBackup", "sleep", "tryBackup"}
    \/ inv[p].op = "initializeFile" /\ inv[p].pc \in {"listBackups", "catch", "releaseLock"}

Tick ==
    /\ budget.ticks > 0
    /\ \/ \E p \in Procs : ReadsClock(p)
       \/ \A p \in Procs : ~Active(p)
    /\ \E t \in TickTargets : t > now /\ now' = t
    /\ budget' = [budget EXCEPT !.ticks = @ - 1]
    /\ UNCHANGED <<files, env, inv, hist>>

\* ---------------------------------------------------------- specification
Next ==
    \/ \E p \in Procs, d \in WriteInputs : StartWrite(p, d)
    \/ \E p \in Procs : StartRead(p)
    \/ \E p \in Procs : ReadLock(p)
    \/ \E p \in Procs : UnlinkLock(p)
    \/ \E p \in Procs : OpenLock(p)
    \/ \E p \in Procs : FillLock(p)
    \/ \E p \in Procs : Wake(p)
    \/ \E p \in Procs : CreateBackup(p)
    \/ \E p \in Procs : WriteTemp(p)
    \/ \E p \in Procs : WriteChecksumTemp(p)
    \/ \E p \in Procs : RenameData(p)
    \/ \E p \in Procs : RenameChecksum(p)
    \/ \E p \in Procs : ReadData(p)
    \/ \E p \in Procs : ReadChecksum(p)
    \/ \E p \in Procs : CleanupBackups(p)
    \/ \E p \in Procs : Catch(p)
    \/ \E p \in Procs : ReleaseLock(p)
    \/ \E p \in Procs : ReadFile(p)
    \/ \E p \in Procs : ListBackups(p)
    \/ \E p \in Procs : TryBackup(p)
    \/ Tick

Spec == Init /\ [][Next]_vars

SpecSeq == InitSeq /\ [][Next]_vars

\* --------------------------------------------------------------- a killed process
\* The process running call p is killed: its files stay as they are.
Kill(p) ==
    /\ Active(p)
    /\ Step(p, [inv[p] EXCEPT !.pc = "done",
                              !.ret = [NoRet EXCEPT !.kind = "killed", !.at = now]])
    /\ UNCHANGED <<files, now, env, budget>>

NextCrash == Next \/ \E p \in Procs : Kill(p)

InitCrash ==
    /\ InitCommon({s \in InitStores : s.primary = NoFile \/ s.checksum = generateChecksum(C0)},
                  {{}, {Backup(100, B0)}}, {}, Envs)
    /\ budget = [calls |-> MaxSeqCalls, ticks |-> MaxSeqTicks, conc |-> 1, faults |-> 0]

SpecCrash == InitCrash /\ [][NextCrash]_vars

\* ------------------------------------------------------------ a failing rename
\* fs.rename rejects (EIO, EACCES, ...) and moves nothing: lines 194 and 195.
RenameDataFails(p) ==
    /\ inv[p].pc = "rename"
    /\ "data" \notin inv[p].renamed
    /\ budget.faults > 0
    /\ budget' = [budget EXCEPT !.faults = @ - 1]
    /\ Step(p, AfterRename(inv[p], "data", TRUE))
    /\ UNCHANGED <<files, now, env>>

RenameChecksumFails(p) ==
    /\ inv[p].pc = "rename"
    /\ "checksum" \notin inv[p].renamed
    /\ budget.faults > 0
    /\ budget' = [budget EXCEPT !.faults = @ - 1]
    /\ Step(p, AfterRename(inv[p], "checksum", TRUE))
    /\ UNCHANGED <<files, now, env>>

NextFault ==
    \/ Next
    \/ \E p \in Procs : RenameDataFails(p)
    \/ \E p \in Procs : RenameChecksumFails(p)

InitFault ==
    /\ InitCommon({s \in InitStores : s.primary = C0 /\ Trim(s.checksum) = s.checksum
                                        /\ s.checksum # NoFile},
                  {{Backup(100, B0), Backup(200, Garbage)}}, LongDead \cup JustDead, Envs)
    /\ budget = [calls |-> MaxSeqCalls, ticks |-> MaxSeqTicks, conc |-> 1,
                 faults |-> MaxFaults]

SpecFault == InitFault /\ [][NextFault]_vars

\* Between two calls time passes until the lock file a dead call left is stale.
LockGoesStale ==
    /\ budget.ticks > 0
    /\ \A p \in Procs : ~Active(p)
    /\ lockFile.exists /\ lockFile.json
    /\ now <= lockFile.timestamp + LOCK_TIMEOUT
    /\ now' = lockFile.timestamp + LOCK_TIMEOUT + 1
    /\ budget' = [budget EXCEPT !.ticks = @ - 1]
    /\ UNCHANGED <<files, env, inv, hist>>

\* Writes with failing renames and killed processes together.
NextFaultCrash ==
    \/ \E p \in Procs, d \in WriteInputs : StartWrite(p, d)
    \/ \E p \in Procs : ReadLock(p)
    \/ \E p \in Procs : UnlinkLock(p)
    \/ \E p \in Procs : OpenLock(p)
    \/ \E p \in Procs : FillLock(p)
    \/ \E p \in Procs : CreateBackup(p)
    \/ \E p \in Procs : WriteTemp(p)
    \/ \E p \in Procs : WriteChecksumTemp(p)
    \/ \E p \in Procs : RenameData(p)
    \/ \E p \in Procs : RenameChecksum(p)
    \/ \E p \in Procs : ReadData(p)
    \/ \E p \in Procs : ReadChecksum(p)
    \/ \E p \in Procs : CleanupBackups(p)
    \/ \E p \in Procs : Catch(p)
    \/ \E p \in Procs : ReleaseLock(p)
    \/ LockGoesStale
    \/ \E p \in Procs : RenameDataFails(p)
    \/ \E p \in Procs : RenameChecksumFails(p)
    \/ \E p \in Procs : Kill(p)

InitFaultCrash ==
    /\ InitCommon({s \in InitStores : s.checksum = generateChecksum(C0)},
                  {{Backup(100, B0)}}, {}, {"production"})
    /\ budget = [calls |-> MaxSeqCalls, ticks |-> MaxSeqTicks, conc |-> 1,
                 faults |-> MaxFaults]

SpecFaultCrash == InitFaultCrash /\ [][NextFaultCrash]_vars

\* ------------------------------------------------------- many writes in a row
InitWrites ==
    /\ InitCommon({s \in InitStores : s.primary = NoFile}, {{}}, {}, {"production"})
    /\ budget = [calls |-> MaxWrites, ticks |-> MaxWriteTicks, conc |-> 1, faults |-> 0]

NextWrites ==
    \/ \E p \in Procs, d \in WriteInputs : StartWrite(p, d)
    \/ \E p \in Procs : OpenLock(p)
    \/ \E p \in Procs : FillLock(p)
    \/ \E p \in Procs : CreateBackup(p)
    \/ \E p \in Procs : WriteTemp(p)
    \/ \E p \in Procs : WriteChecksumTemp(p)
    \/ \E p \in Procs : RenameData(p)
    \/ \E p \in Procs : RenameChecksum(p)
    \/ \E p \in Procs : ReadData(p)
    \/ \E p \in Procs : ReadChecksum(p)
    \/ \E p \in Procs : CleanupBackups(p)
    \/ \E p \in Procs : ReleaseLock(p)
    \/ Tick

SpecWrites == InitWrites /\ [][NextWrites]_vars

\* ------------------------------------------------- failing best-effort steps
\* CreateBackupFails with the error of copyFile thrown on to atomicWrite.
CreateBackupThrows(p) ==
    /\ inv[p].pc = "createBackup"
    /\ primaryFile # NoFile
    /\ budget.faults > 0
    /\ budget' = [budget EXCEPT !.faults = @ - 1]
    /\ Step(p, [inv[p] EXCEPT !.pc = "catch", !.err = Err("copy failed", ""),
                              !.failed = @ \cup {"copy"}])
    /\ UNCHANGED <<files, now, env>>

\* fs.copyFile is rejected (line 133): the catch of line 135 logs it, createBackup
\* returns null and atomicWrite goes on.
CreateBackupFails(p) ==
    /\ inv[p].pc = "createBackup"
    /\ primaryFile # NoFile
    /\ budget.faults > 0
    /\ budget' = [budget EXCEPT !.faults = @ - 1]
    /\ Step(p, [inv[p] EXCEPT !.pc = "writeTemp", !.failed = @ \cup {"copy"}])
    /\ UNCHANGED <<files, now, env>>

\* cleanupBackups fails: readdir or statSync throws (line 148, 155) and nothing is
\* removed, or some of the unlinks of line 162 are rejected and their files stay.
CleanupBackupsFails(p) ==
    /\ inv[p].pc = "cleanupBackups"
    /\ budget.faults > 0
    /\ budget' = [budget EXCEPT !.faults = @ - 1]
    /\ \E K \in KeepSets(backupDir), D \in SUBSET backupDir :
          /\ K \subseteq D
          /\ (D # K \/ K = backupDir)
          /\ backupDir' = D
    /\ Step(p, [inv[p] EXCEPT !.pc = "releaseLock", !.failed = @ \cup {"prune"}])
    /\ UNCHANGED <<primaryFile, checksumFile, tempFile, checksumTemp, lockFile, now, env>>

\* Another process removes the lock file of a holder at work, having judged it
\* stale: releaseLock will find it gone (lines 116-120).
LockReaped(p) ==
    /\ inv[p].lockPath
    /\ lockFile.exists
    /\ budget.faults > 0
    /\ budget' = [budget EXCEPT !.faults = @ - 1]
    /\ lockFile' = NoLock
    /\ Step(p, [inv[p] EXCEPT !.failed = @ \cup {"release"}])
    /\ UNCHANGED <<primaryFile, checksumFile, tempFile, checksumTemp, backupDir, now, env>>

FullBackups == {Backup(t, B0) : t \in {100, 110, 120, 130, 140}}

InitBestEffort ==
    /\ InitCommon({s \in InitStores : s.checksum = generateChecksum(C0)},
                  {{Backup(100, B0)}, FullBackups}, LongDead \cup JustDead, Envs)
    /\ budget = [calls |-> MaxSeqCalls, ticks |-> MaxSeqTicks, conc |-> 1,
                 faults |-> MaxFaults]

NextBestEffort ==
    \/ \E p \in Procs, d \in WriteInputs : StartWrite(p, d)
    \/ \E p \in Procs : CreateBackupFails(p)
    \/ \E p \in Procs : CleanupBackupsFails(p)
    \/ \E p \in Procs : LockReaped(p)
    \/ \E p \in Procs : ReadLock(p)
    \/ \E p \in Procs : UnlinkLock(p)
    \/ \E p \in Procs : OpenLock(p)
    \/ \E p \in Procs : FillLock(p)
    \/ \E p \in Procs : Wake(p)
    \/ \E p \in Procs : CreateBackup(p)
    \/ \E p \in Procs : WriteTemp(p)
    \/ \E p \in Procs : WriteChecksumTemp(p)
    \/ \E p \in Procs : RenameData(p)
    \/ \E p \in Procs : RenameChecksum(p)
    \/ \E p \in Procs : ReadData(p)
    \/ \E p \in Procs : ReadChecksum(p)
    \/ \E p \in Procs : CleanupBackups(p)
    \/ \E p \in Procs : Catch(p)
    \/ \E p \in Procs : ReleaseLock(p)
    \/ Tick

SpecBestEffort == InitBestEffort /\ [][NextBestEffort]_vars

\* ------------------------------------------------- initializeFile and safeRead
InitDefaults == {Arr(<<>>)}

InitInit ==
    /\ InitCommon(InitStores, InitBackups, LongDead \cup JustDead, Envs)
    /\ budget = [calls |-> MaxSeqCalls, ticks |-> MaxSeqTicks, conc |-> 1, faults |-> 0]

NextInit ==
    \/ \E p \in Procs, d \in InitDefaults : StartInit(p, d)
    \/ \E p \in Procs : StartRead(p)
    \/ \E p \in Procs : ReadLock(p)
    \/ \E p \in Procs : UnlinkLock(p)
    \/ \E p \in Procs : OpenLock(p)
    \/ \E p \in Procs : FillLock(p)
    \/ \E p \in Procs : Wake(p)
    \/ \E p \in Procs : CreateBackup(p)
    \/ \E p \in Procs : WriteTemp(p)
    \/ \E p \in Procs : WriteChecksumTemp(p)
    \/ \E p \in Procs : RenameData(p)
    \/ \E p \in Procs : RenameChecksum(p)
    \/ \E p \in Procs : ReadData(p)
    \/ \E p \in Procs : ReadChecksum(p)
    \/ \E p \in Procs : CleanupBackups(p)
    \/ \E p \in Procs : Catch(p)
    \/ \E p \in Procs : ReleaseLock(p)
    \/ \E p \in Procs : ReadFile(p)
    \/ \E p \in Procs : ListBackups(p)
    \/ \E p \in Procs : TryBackup(p)
    \/ Tick

SpecInit == InitInit /\ [][NextInit]_vars

\* ------------------------------------------------- getFileHealth next to writes
HealthStores ==
    {s \in InitStores : s.primary = NoFile \/ s.checksum \in {generateChecksum(C0),
                                                              generateChecksum(B0)}}

InitHealth ==
    /\ InitCommon(HealthStores, {{Backup(100, B0)}}, LongDead, {"production"})
    \* conc = 2: a health check next to one other call
    /\ budget = [calls |-> MaxCalls, ticks |-> 0, conc |-> 2, faults |-> MaxFaults]

NextHealth ==
    \/ \E p \in Procs : StartWrite(p, Arr(<<"r1", "r2">>))
    \/ \E p \in Procs : StartHealth(p)
    \/ \E p \in Procs : HealthStat(p)
    \/ \E p \in Procs : HealthStatFails(p)
    \/ \E p \in Procs : ReadDataFails(p)
    \/ \E p \in Procs : HealthReaddir(p)
    \/ \E p \in Procs : HealthReaddirFails(p)
    \/ \E p \in Procs : ReadLock(p)
    \/ \E p \in Procs : UnlinkLock(p)
    \/ \E p \in Procs : OpenLock(p)
    \/ \E p \in Procs : FillLock(p)
    \/ \E p \in Procs : CreateBackup(p)
    \/ \E p \in Procs : WriteTemp(p)
    \/ \E p \in Procs : WriteChecksumTemp(p)
    \/ \E p \in Procs : RenameData(p)
    \/ \E p \in Procs : RenameChecksum(p)
    \/ \E p \in Procs : ReadData(p)
    \/ \E p \in Procs : ReadChecksum(p)
    \/ \E p \in Procs : CleanupBackups(p)
    \/ \E p \in Procs : Catch(p)
    \/ \E p \in Procs : ReleaseLock(p)

SpecHealth == InitHealth /\ [][NextHealth]_vars

\* --------------------------------------------------- writers meeting a live lock
\* A lock whose holder is still at work (or has just died): fresh, or old enough
\* to go stale during the backoff.
LiveLocks == {OrphanLock(0), OrphanLock(LOCK_TIMEOUT_DEV - 3 * RETRY_DELAY)}

InitRetry ==
    /\ InitCommon({s \in InitStores : s.checksum = generateChecksum(C0)}, {{}},
                  LiveLocks, Envs)
    \* conc = 2: the holder of the lock and one other writer
    /\ budget = [calls |-> MaxRetryCalls, ticks |-> MaxRetryTicks, conc |-> 2,
                 faults |-> 0]

\* The timer of a sleeping createLock expires (line 59): time has passed up to
\* the end of that sleep.
TimerFires ==
    /\ budget.ticks > 0
    /\ \E p \in Procs : inv[p].pc = "sleep" /\ inv[p].wakeAt > now /\ now' = inv[p].wakeAt
    /\ budget' = [budget EXCEPT !.ticks = @ - 1]
    /\ UNCHANGED <<files, env, inv, hist>>

NextRetry ==
    \/ \E p \in Procs : StartWrite(p, Arr(<<"r1", "r2">>))
    \/ \E p \in Procs : ReadLock(p)
    \/ \E p \in Procs : UnlinkLock(p)
    \/ \E p \in Procs : OpenLock(p)
    \/ \E p \in Procs : FillLock(p)
    \/ \E p \in Procs : Wake(p)
    \/ \E p \in Procs : CreateBackup(p)
    \/ \E p \in Procs : WriteTemp(p)
    \/ \E p \in Procs : WriteChecksumTemp(p)
    \/ \E p \in Procs : RenameData(p)
    \/ \E p \in Procs : RenameChecksum(p)
    \/ \E p \in Procs : ReadData(p)
    \/ \E p \in Procs : ReadChecksum(p)
    \/ \E p \in Procs : CleanupBackups(p)
    \/ \E p \in Procs : Catch(p)
    \/ \E p \in Procs : ReleaseLock(p)
    \/ TimerFires

SpecRetry == InitRetry /\ [][NextRetry]_vars

\* ------------------------------------------------- what a killed holder leaves
\* Between two calls more than LOCK_TIMEOUT passes while a lock file lies there.
TimeoutPasses ==
    /\ budget.ticks > 0
    /\ \A p \in Procs : ~Active(p)
    /\ lockFile.exists
    /\ now' = now + LOCK_TIMEOUT + 1
    /\ budget' = [budget EXCEPT !.ticks = @ - 1]
    /\ UNCHANGED <<files, env, inv, hist>>

InitLeftover ==
    /\ InitCommon({s \in InitStores : s.checksum = generateChecksum(C0)},
                  {{Backup(100, B0)}}, {}, Envs)
    /\ budget = [calls |-> MaxSeqCalls, ticks |-> MaxSeqTicks, conc |-> 1, faults |-> 0]

NextLeftover ==
    \/ \E p \in Procs, d \in WriteInputs : StartWrite(p, d)
    \/ \E p \in Procs : ReadLock(p)
    \/ \E p \in Procs : UnlinkLock(p)
    \/ \E p \in Procs : OpenLock(p)
    \/ \E p \in Procs : FillLock(p)
    \/ \E p \in Procs : Wake(p)
    \/ \E p \in Procs : CreateBackup(p)
    \/ \E p \in Procs : WriteTemp(p)
    \/ \E p \in Procs : WriteChecksumTemp(p)
    \/ \E p \in Procs : RenameData(p)
    \/ \E p \in Procs : RenameChecksum(p)
    \/ \E p \in Procs : ReadData(p)
    \/ \E p \in Procs : ReadChecksum(p)
    \/ \E p \in Procs : CleanupBackups(p)
    \/ \E p \in Procs : Catch(p)
    \/ \E p \in Procs : ReleaseLock(p)
    \/ \E p \in Procs : Kill(p)
    \/ TimerFires
    \/ TimeoutPasses

SpecLeftover == InitLeftover /\ [][NextLeftover]_vars

\* ------------------------------------------------------- HTTP requests, one by one
Request(kind, id, note) == [NoReq EXCEPT !.kind = kind, !.id = id, !.note = note]

HttpRequests ==
    {Request("GET", "", ""), Request("POST", "", "r2"),
     Request("PUT", "1", ""), Request("DELETE", "1", ""), Request("DELETE", "2", "")}

\* A request arrives and its handler runs up to its first suspension: readNotes
\* calls safeRead (lines 145-148), which returns null at once when there is no
\* file (lines 234-235) and calls verifyChecksum when there is one.
StartRequest(p, r) ==
    /\ Begin(p, IF primaryFile = NoFile
                THEN Handle([Idle EXCEPT !.op = "safeRead", !.req = r,
                                         !.req.stage = "safeRead"], Arr(<<>>))
                ELSE [Idle EXCEPT !.pc = "verify", !.op = "safeRead", !.req = r,
                                  !.req.stage = "safeRead"])
    /\ hist' = IF inv'[p].pc = "done" THEN Summary(inv'[p]) ELSE hist
    /\ UNCHANGED <<files, now, env>>

\* A lock held by a process that is alive all along.
HeldLock == OrphanLock(0)

InitHttp ==
    /\ InitCommon(InitStores, InitBackups, LongDead \cup {HeldLock}, {"production"})
    /\ budget = [calls |-> MaxRequests, ticks |-> 0, conc |-> 1, faults |-> MaxFaults]

NextHttp ==
    \/ \E p \in Procs, r \in HttpRequests : StartRequest(p, r)
    \/ \E p \in Procs : ReadLock(p)
    \/ \E p \in Procs : UnlinkLock(p)
    \/ \E p \in Procs : OpenLock(p)
    \/ \E p \in Procs : FillLock(p)
    \/ \E p \in Procs : CreateBackup(p)
    \/ \E p \in Procs : WriteTemp(p)
    \/ \E p \in Procs : WriteChecksumTemp(p)
    \/ \E p \in Procs : RenameData(p)
    \/ \E p \in Procs : RenameChecksum(p)
    \/ \E p \in Procs : RenameDataFails(p)
    \/ \E p \in Procs : RenameChecksumFails(p)
    \/ \E p \in Procs : ReadData(p)
    \/ \E p \in Procs : ReadChecksum(p)
    \/ \E p \in Procs : CleanupBackups(p)
    \/ \E p \in Procs : Catch(p)
    \/ \E p \in Procs : ReleaseLock(p)
    \/ \E p \in Procs : ReadFile(p)
    \/ \E p \in Procs : ListBackups(p)
    \/ \E p \in Procs : TryBackup(p)

SpecHttp == InitHttp /\ [][NextHttp]_vars

\* ------------------------------------------------------- HTTP requests that overlap
CreateRequests == {Request("POST", "", "r2"), Request("POST", "", "r3")}

InitHttpRace ==
    /\ InitCommon({s \in InitStores : s.checksum = generateChecksum(C0)}, {{}}, {},
                  {"production"})
    \* conc = 2: two requests in flight
    /\ budget = [calls |-> MaxRequests, ticks |-> 0, conc |-> 2, faults |-> 0]

NextHttpRace ==
    \/ \E p \in Procs, r \in CreateRequests : StartRequest(p, r)
    \/ \E p \in Procs : ReadLock(p)
    \/ \E p \in Procs : OpenLock(p)
    \/ \E p \in Procs : FillLock(p)
    \/ \E p \in Procs : CreateBackup(p)
    \/ \E p \in Procs : WriteTemp(p)
    \/ \E p \in Procs : WriteChecksumTemp(p)
    \/ \E p \in Procs : RenameData(p)
    \/ \E p \in Procs : RenameChecksum(p)
    \/ \E p \in Procs : ReadData(p)
    \/ \E p \in Procs : ReadChecksum(p)
    \/ \E p \in Procs : CleanupBackups(p)
    \/ \E p \in Procs : Catch(p)
    \/ \E p \in Procs : ReleaseLock(p)
    \/ \E p \in Procs : ReadFile(p)
    \/ \E p \in Procs : ListBackups(p)
    \/ \E p \in Procs : TryBackup(p)

SpecHttpRace == InitHttpRace /\ [][NextHttpRace]_vars

\* ================================================================ properties
Held == {p \in Procs : inv[p].lockPath}

Returned(p, op) == inv[p].pc = "done" /\ inv[p].op = op /\ inv[p].ret.kind # "killed"

Valid(st) == VerifyTexts(st.primary, st.checksum).valid

Corrupt(st) == st.primary # NoFile /\ ~Valid(st)

Parseable(dir) == {b \in dir : JSONparse(b.data).ok}

NewestParseable(dir) ==
    CHOOSE b \in Parseable(dir) : \A c \in Parseable(dir) : b.mtime >= c.mtime

LockErrors ==
    {"ENOENT", "SyntaxError", "File is locked by PID",
     "File is currently locked by another process"}

\* C1. Lock exclusivity: at any moment at most one atomicWrite invocation is
\* between its successful createLock and its releaseLock, also when stale locks
\* are removed and when a holder's write outlasts LOCK_TIMEOUT.
C1_LockExclusivity == Cardinality(Held) <= 1

\* C2. Failure atomicity: when atomicWrite raises, P and P.checksum hold what
\* they held before the call (for a call no other call overlapped).
C2_FailureAtomicity ==
    \A p \in Procs :
        (Returned(p, "atomicWrite") /\ inv[p].ret.kind = "error" /\ inv[p].alone)
        => (primaryFile = inv[p].pre.primary /\ checksumFile = inv[p].pre.checksum)

\* C3. A safeRead that runs next to one non-crashing atomicWrite(P, C) over valid
\* content C0 returns C0 or C: no other content, no error.
C3_ReaderSeesOldOrNew ==
    \A p \in Procs, q \in Procs :
        (/\ Returned(p, "safeRead")
         /\ inv[q].op = "atomicWrite"
         /\ budget.calls = MaxCalls - 2
         /\ Valid(inv[q].pre))
        => (/\ inv[p].ret.kind = "ok"
            /\ inv[p].ret.val \in {ParseOrRaw(inv[q].pre.primary), inv[q].data})

\* C4. Crash atomicity: after a writer was killed before both renames of step 5
\* were done, a safeRead returns what the store held before that write.
C4_CrashAtomicity ==
    \A p \in Procs :
        (/\ Returned(p, "safeRead")
         /\ inv[p].expect.op = "atomicWrite"
         /\ inv[p].expect.ret.kind = "killed"
         /\ inv[p].expect.renamed # {"data", "checksum"}
         /\ Valid(inv[p].expect.pre))
        => inv[p].ret = RetOk(ParseOrRaw(inv[p].expect.pre.primary))

\* C5. Integrity round trip: a safeRead that directly follows a successful
\* atomicWrite(P, C), neither overlapped by another call, returns a value equal
\* to C, whatever the store held before the write.
C5_RoundTrip ==
    \A p \in Procs :
        (/\ Returned(p, "safeRead")
         /\ inv[p].alone
         /\ inv[p].expect.op = "atomicWrite"
         /\ inv[p].expect.ret.kind = "ok"
         /\ inv[p].expect.alone)
        => inv[p].ret = RetOk(inv[p].expect.data)

\* C5's case: the read has returned, and the write before it found a corrupt store.
C5_Witness ==
    \E p \in Procs :
        /\ Returned(p, "safeRead")
        /\ inv[p].alone
        /\ inv[p].expect.op = "atomicWrite"
        /\ inv[p].expect.ret.kind = "ok"
        /\ Corrupt(inv[p].expect.pre)
        /\ inv[p].ret.val = Arr(<<"r1", "r2">>)

\* What a safeRead that found a corrupt primary has to recover from.
RecoveryCase(p) ==
    /\ Returned(p, "safeRead")
    /\ inv[p].alone
    /\ Corrupt(inv[p].pre)

C7_TotalCorruption ==
    \A p \in Procs :
        (RecoveryCase(p) /\ Parseable(inv[p].pre.backups) = {})
        => (/\ inv[p].ret.kind = "error"
            /\ inv[p].ret.val = Null
            /\ inv[p].ret.err =
                 Err("Data corruption detected and recovery failed",
                     VerifyTexts(inv[p].pre.primary, inv[p].pre.checksum).reason)
            /\ inv[p].ret.err.detail \in {"Checksum mismatch", "No checksum file"})

\* C7's case: there were backups, none of them parsed, and the read has raised.
C7_Witness ==
    \E p \in Procs :
        /\ RecoveryCase(p)
        /\ inv[p].pre.backups # {}
        /\ Parseable(inv[p].pre.backups) = {}
        /\ inv[p].ret.kind = "error"

\* C8. Stale lock takeover: a createLock that finds a lock whose timestamp is
\* more than LOCK_TIMEOUT in the past (2000 ms in development, 10000 ms
\* otherwise) removes it and then acquires the lock, with the retry count it had
\* when it found the lock: no sleep, no lock error (for a call no other call
\* overlapped).
C8_StaleLockTakeover ==
    \A p \in Procs :
        (inv[p].alone /\ inv[p].sawAge # -1)
        => (/\ inv[p].sawAge > (IF env = "development" THEN 2000 ELSE 10000)
            /\ inv[p].retryCount = inv[p].sawRetry
            /\ inv[p].pc # "sleep"
            /\ inv[p].err.code \notin LockErrors
            /\ (inv[p].pc = "openLock" => ~lockFile.exists)
            /\ (inv[p].pc \notin {"unlinkLock", "openLock", "fillLock"}
                  => inv[p].lockPath \/ inv[p].pc = "done" \/ inv[p].pc = "tryBackup")
            /\ (inv[p].lockPath
                  => lockFile = [exists |-> TRUE, json |-> TRUE, pid |-> p,
                                 timestamp |-> inv[p].lockTs]))

\* C8's case: a stale lock was removed and the lock is now held, no retry used.
C8_Witness ==
    \E p \in Procs :
        /\ inv[p].alone
        /\ inv[p].sawAge # -1
        /\ inv[p].lockPath
        /\ inv[p].retryCount = 0
        /\ env = "production"

\* C9. Backup retention: after more than BACKUP_COUNT successful atomicWrite
\* calls exactly BACKUP_COUNT backup files remain.
C9_Retention ==
    (hist.okWrites > BACKUP_COUNT /\ \A p \in Procs : ~Active(p))
    => Cardinality(backupDir) = BACKUP_COUNT

\* C10. Every atomicWrite that holds the lock while a primary exists takes a
\* backup of the primary's content under a name no existing backup has.
C10_SnapshotDistinct ==
    [][\A p \in Procs :
         (inv[p].pc = "createBackup" /\ inv'[p].pc = "writeTemp" /\ primaryFile # NoFile)
         => \E b \in backupDir' :
               /\ b.data = primaryFile
               /\ \A c \in backupDir : c.name # b.name]_vars

\* C11. Read-only on a valid store: a safeRead or initializeFile that finds the
\* primary verifying against its checksum (and that no other call overlaps)
\* changes no file in any of its steps (no lock, backup or temp file appears,
\* P and P.checksum stay) and returns the content of P, call after call.
C11_ReadOnlyOnValid ==
    [][\A p \in Procs :
         (/\ inv'[p] # inv[p]
          /\ inv'[p].op \in {"safeRead", "initializeFile"}
          /\ inv'[p].alone
          /\ Valid(inv'[p].pre))
         => (/\ files' = files
             /\ (inv'[p].pc = "done"
                   => inv'[p].ret = RetOk(ParseOrRaw(inv'[p].pre.primary))))]_vars

\* C11's case: a second read-only call in a row on a valid store has returned.
C11_Witness ==
    \E p \in Procs :
        /\ Returned(p, "initializeFile")
        /\ inv[p].alone
        /\ Valid(inv[p].pre)
        /\ inv[p].expect.op \in {"safeRead", "initializeFile"}
        /\ Valid(inv[p].expect.pre)
        /\ inv[p].ret.kind = "ok"

\* C12. The lock is always released: an atomicWrite that acquired the lock has
\* removed the lock file when it returns or raises, whichever step failed; when
\* no call is running, the only lock file there can be is one left by a process
\* that died before the first call.
C12_LockReleased ==
    [][(\A p \in Procs :
          /\ (inv[p].lockPath /\ ~inv'[p].lockPath) => ~lockFile'.exists
          /\ (inv'[p].pc \in {"done", "tryBackup"} \/ ~InWrite(inv'[p]))
                => ~inv'[p].lockPath)
       /\ ((\A q \in Procs : ~Active(q)')
              => (~lockFile'.exists \/ lockFile'.pid = "gone"))]_vars

\* C12's case: a write that held the lock has raised, and the lock file is gone.
C12_Witness ==
    \E p \in Procs :
        /\ Returned(p, "atomicWrite")
        /\ inv[p].ret.kind = "error"
        /\ inv[p].ret.err.code = "rename failed"
        /\ ~lockFile.exists

\* C13. getFileHealth is a read-only diagnostic: none of its steps changes a
\* file, it returns its stats and never raises, whatever the store holds and
\* whatever a writer next to it is doing; a step that fails leaves the fields it
\* would have set at their defaults.
C13_HealthReadOnly ==
    [][\A p \in Procs :
         (inv'[p] # inv[p] /\ inv'[p].op = "getFileHealth")
         => (/\ files' = files
             /\ inv'[p].ret.kind # "error"
             /\ (inv'[p].pc = "done" =>
                   LET st == inv'[p].stats
                       bad == inv'[p].failed
                   IN  /\ inv'[p].ret.kind = "ok"
                       /\ st.exists = (inv'[p].pre.primary # NoFile)
                       /\ ~st.exists => st = NoStats
                       /\ "stat" \in bad
                            => (~st.readable /\ st.lastModified = "null" /\ st.size = 0)
                       /\ (st.exists /\ "stat" \notin bad)
                            => (st.readable /\ st.lastModified # "null" /\ st.size > 0)
                       /\ "read" \in bad
                            => (~st.integrity.valid
                                /\ st.integrity.reason \notin {"", "Valid"})
                       /\ st.integrity.valid = (st.integrity.reason = "Valid")
                       /\ "readdir" \in bad => st.backupCount = 0))]_vars

\* C13's case: a health check next to a running write has returned although its
\* fs.stat failed.
C13_Witness ==
    \E p \in Procs :
        /\ Returned(p, "getFileHealth")
        /\ ~inv[p].alone
        /\ "stat" \in inv[p].failed
        /\ inv[p].stats.exists
        /\ inv[p].ret.kind = "ok"

\* C14. No-retry profile: outside development a createLock that meets a live
\* lock fails on its first attempt, without a sleep, and its error names the
\* holder, both when the existence check saw the lock and when the exclusive
\* create failed with EEXIST.
C14_NoRetryIdentity ==
    \A p \in Procs :
        (/\ env # "development"
         /\ inv[p].err.code \in {"File is locked by PID",
                                  "File is currently locked by another process"})
        => (/\ inv[p].retryCount = 0
            /\ inv[p].wakeAt = 0
            /\ inv[p].err.detail \in Procs \cup {"gone"})

\* C15. Bounded retry: in development createLock sleeps 200, 400, 800 ms before
\* retries 0, 1, 2 (elsewhere never), each sleep is followed by one more attempt
\* with the counter raised by one whichever path asked for the retry, the counter
\* never passes MAX_RETRIES = 3 (at most 4 attempts), and a lock-held error in
\* development is raised only with the counter at 3.
C15_BoundedRetry ==
    [][\A p \in Procs :
         /\ inv'[p].retryCount <= 3
         /\ (inv[p].pc # "sleep" /\ inv'[p].pc = "sleep")
              => (/\ env = "development"
                  /\ inv'[p].retryCount = inv[p].retryCount
                  /\ inv'[p].wakeAt - now =
                        (CASE inv[p].retryCount = 0 -> 200
                           [] inv[p].retryCount = 1 -> 400
                           [] inv[p].retryCount = 2 -> 800
                           [] OTHER -> -1))
         /\ (inv[p].pc = "sleep" /\ inv'[p] # inv[p] /\ inv'[p].alone = inv[p].alone)
              => (/\ now >= inv[p].wakeAt
                  /\ inv'[p].retryCount = inv[p].retryCount + 1
                  /\ inv'[p].pc \in {"readLock", "openLock"})
         /\ (/\ inv[p].err = NoErr
             /\ inv'[p].err.code \in {"File is locked by PID",
                                       "File is currently locked by another process"}
             /\ env = "development")
              => inv'[p].retryCount = 3]_vars

\* C15's case: a writer has used up its three retries, on both paths, and failed.
C15_Witness ==
    \E p \in Procs :
        /\ env = "development"
        /\ inv[p].retryCount = 3
        /\ inv[p].retried = {"exists", "EEXIST"}
        /\ inv[p].ret.kind = "error"
        /\ inv[p].ret.err.code = "File is locked by PID"

\* C16. A write that cannot verify its own output is a failed write: when
\* atomicWrite(P, C) returns success, P holds the serialization of C and
\* P.checksum holds the digest of P.
C16_SuccessMeansWritten ==
    [][\A p \in Procs :
         (/\ inv[p].pc # "done"
          /\ inv'[p].pc = "done"
          /\ inv'[p].op = "atomicWrite"
          /\ inv'[p].ret.kind = "ok")
         => (/\ primaryFile' = Serialize(inv'[p].data)
             /\ checksumFile' = generateChecksum(primaryFile'))]_vars

\* C17. Temp-file cleanup: when an atomicWrite (one no other call overlaps)
\* raises after it acquired the lock, P.tmp and P.checksum.tmp do not exist when
\* the error reaches the caller; and what a rename moves into place is the text
\* of the write that issues it, never what an earlier failed or killed write left.
C17_TempCleanup ==
    [][\A p \in Procs :
         /\ (/\ inv[p].pc # "done"
             /\ inv'[p].pc = "done"
             /\ inv'[p].op = "atomicWrite"
             /\ inv'[p].alone
             /\ inv'[p].ret.kind = "error"
             /\ inv'[p].ret.err.code \notin LockErrors)
              => (tempFile' = NoFile /\ checksumTemp' = NoFile)
         /\ (inv[p].alone /\ inv[p].pc = "rename" /\ primaryFile' # primaryFile)
              => primaryFile' = Serialize(inv[p].data)
         /\ (inv[p].alone /\ inv[p].pc = "rename" /\ checksumFile' # checksumFile)
              => checksumFile' = generateChecksum(Serialize(inv[p].data))]_vars

\* C17's case: a write that found the temp file of a killed write has itself
\* failed at a rename and raised.
C17_Witness ==
    \E p \in Procs :
        /\ Returned(p, "atomicWrite")
        /\ inv[p].alone
        /\ inv[p].pre.temp # NoFile
        /\ inv[p].expect.ret.kind = "killed"
        /\ inv[p].ret.kind = "error"
        /\ inv[p].ret.err.code = "rename failed"
        /\ tempFile = NoFile
        /\ checksumTemp = NoFile

\* C18. Best-effort steps never change a write's outcome: an atomicWrite (one no
\* other call overlaps) that got the lock returns success with P holding the
\* serialization of its data and P.checksum its digest, also when the snapshot
\* copy failed, when pruning failed, or when the lock file was gone at release.
C18_BestEffort ==
    [][\A p \in Procs :
         (/\ inv[p].pc # "done"
          /\ inv'[p].pc = "done"
          /\ inv'[p].op = "atomicWrite"
          /\ inv'[p].alone
          /\ inv'[p].ret.err.code \notin LockErrors)
         => (/\ inv'[p].ret = RetOk(inv'[p].data)
             /\ primaryFile' = Serialize(inv'[p].data)
             /\ checksumFile' = generateChecksum(primaryFile')
             /\ ~lockFile'.exists)]_vars

\* C18's case: a write whose snapshot copy failed has returned success.
C18_Witness ==
    \E p \in Procs :
        /\ Returned(p, "atomicWrite")
        /\ inv[p].alone
        /\ "copy" \in inv[p].failed
        /\ inv[p].ret.kind = "ok"
        /\ primaryFile = C1

\* C19. initializeFile(P, D), with no other call next to it: P absent, D is
\* written through atomicWrite and returned; P present, the result of safeRead
\* is returned; when the try block threw, one last atomicWrite(P, D) is made, D
\* is returned when it succeeds, and only its failure is raised.
C19_InitializeFile ==
    \A p \in Procs :
        (Returned(p, "initializeFile") /\ inv[p].alone)
        => LET rec == inv[p]
               pre == rec.pre
               D == rec.defaultData
               wroteD == /\ rec.ret = RetOk(D)
                         /\ primaryFile = Serialize(D)
                         /\ checksumFile = generateChecksum(primaryFile)
           IN  /\ rec.stage \in {"tryWrite", "read", "lastWrite"}
               /\ rec.stage = "tryWrite" => (pre.primary = NoFile /\ wroteD)
               /\ rec.stage = "read"
                    => (/\ pre.primary # NoFile
                        /\ rec.ret.kind = "ok"
                        /\ Valid(pre) => rec.ret.val = ParseOrRaw(pre.primary)
                        /\ Corrupt(pre)
                             => \E b \in Parseable(pre.backups) :
                                   rec.ret.val = JSONparse(b.data).val)
               /\ rec.stage = "lastWrite"
                    => (/\ rec.ret.kind = "ok" => wroteD
                        /\ rec.ret.kind = "error" => rec.ret.err.code \in LockErrors
                        /\ pre.primary = NoFile => ~pre.lockFree
                        /\ pre.primary # NoFile
                             => (Corrupt(pre)
                                 /\ (Parseable(pre.backups) = {} \/ ~pre.lockFree)))
               /\ (pre.primary = NoFile /\ pre.lockFree) => rec.stage = "tryWrite"
               /\ (pre.primary # NoFile /\ Valid(pre)) => rec.stage = "read"
               /\ (Corrupt(pre) /\ Parseable(pre.backups) = {} /\ pre.lockFree)
                    => (rec.stage = "lastWrite" /\ wroteD)
               /\ rec.ret.kind = "error" => rec.stage = "lastWrite"

\* C19's case: safeRead raised on a corrupt store without a usable backup, and
\* the last attempt wrote and returned the default.
C19_Witness ==
    \E p \in Procs :
        /\ Returned(p, "initializeFile")
        /\ inv[p].alone
        /\ Corrupt(inv[p].pre)
        /\ inv[p].pre.backups # {}
        /\ inv[p].stage = "lastWrite"
        /\ inv[p].ret = RetOk(inv[p].defaultData)

\* C20. safeRead on a path without a primary file returns null at once: it does
\* not raise, does not turn to the backups even when there are some, and
\* changes no file.
C20_AbsentReturnsNull ==
    [][\A p \in Procs :
         (/\ inv[p].pc \in {"idle", "done"}
          /\ inv'[p] # inv[p]
          /\ inv'[p].op = "safeRead"
          /\ primaryFile = NoFile)
         => (/\ inv'[p].pc = "done"
             /\ inv'[p].ret = RetOk(Null)
             /\ inv'[p].pass = 0
             /\ inv'[p].backupFiles = {}
             /\ files' = files)]_vars

\* C20's case: a safeRead has returned null although a backup that parses exists.
C20_Witness ==
    \E p \in Procs :
        /\ Returned(p, "safeRead")
        /\ inv[p].pre.primary = NoFile
        /\ Parseable(inv[p].pre.backups) # {}
        /\ inv[p].ret = RetOk(Null)
        /\ primaryFile = NoFile

\* C21. Last writer wins: when two atomicWrite calls that ran next to each other
\* have both returned success, P holds the serialization of the data of the one
\* that acquired the lock later and P.checksum holds its digest.
C21_LastWriterWins ==
    \A p \in Procs, q \in Procs :
        (/\ Returned(p, "atomicWrite") /\ inv[p].ret.kind = "ok"
         /\ Returned(q, "atomicWrite") /\ inv[q].ret.kind = "ok"
         /\ inv[q].lockRank > inv[p].lockRank)
        => (/\ primaryFile = Serialize(inv[q].data)
            /\ checksumFile = generateChecksum(Serialize(inv[q].data)))

\* C22. HTTP layer, failed write: when the atomicWrite of a POST, PUT or DELETE
\* on /api/notes rejects, the response is 500 with 'Failed to save note',
\* 'Failed to update note', 'Failed to delete note' respectively; a success status
\* is sent only after the request's atomicWrite returned success, with P then
\* holding the collection the handler sent to it (requests one at a time).
C22_FailedWrite ==
    [][\A p \in Procs :
         (/\ inv'[p] # inv[p]
          /\ inv'[p].req.stage = "responded"
          /\ inv'[p].req.kind \in {"POST", "PUT", "DELETE"})
         => (/\ (inv[p].req.stage = "write" /\ inv'[p].ret.kind = "error")
                  => (/\ inv'[p].req.status = 500
                      /\ inv'[p].req.error =
                            (CASE inv'[p].req.kind = "POST" -> "Failed to save note"
                               [] inv'[p].req.kind = "PUT" -> "Failed to update note"
                               [] OTHER -> "Failed to delete note"))
             /\ inv'[p].req.status \in {200, 201}
                  => (/\ inv[p].req.stage = "write"
                      /\ inv[p].op = "atomicWrite"
                      /\ inv'[p].ret.kind = "ok"
                      /\ primaryFile' = Serialize(inv'[p].req.sent)
                      /\ checksumFile' = generateChecksum(primaryFile')))]_vars

\* C22's case: the atomicWrite of a DELETE was rejected while the lock was held,
\* the response is 500 and the note is still in P.
C22_Witness ==
    \E p \in Procs :
        /\ inv[p].req.kind = "DELETE"
        /\ inv[p].req.stage = "responded"
        /\ inv[p].ret.kind = "error"
        /\ inv[p].ret.err.code = "File is locked by PID"
        /\ inv[p].req.status = 500
        /\ inv[p].req.error = "Failed to delete note"
        /\ primaryFile = C0

C24_LockFailureFrame ==
    [][\A p \in Procs :
         (/\ inv[p].pc = "catch"
          /\ ~inv[p].lockPath
          /\ inv[p].err.code \in LockErrors
          /\ inv'[p] # inv[p])
         => files' = files]_vars

\* C25. Lock ownership: a step that deletes the lock file is the releaseLock of
\* the invocation that created that file, or the stale removal of an acquirer
\* while that file is older than LOCK_TIMEOUT; a live lock of another invocation
\* is never deleted.
C25_LockOwnership ==
    [][\A p \in Procs :
         (inv'[p] # inv[p] /\ lockFile.exists /\ ~lockFile'.exists)
         => \/ inv[p].pc = "releaseLock" /\ lockFile.pid = p
            \/ /\ inv[p].pc = "unlinkLock"
               /\ lockFile.json
               /\ IsStale(now - lockFile.timestamp)]_vars

\* C26. A read never undoes a successful write: when atomicWrite(P, C) has
\* returned success, no other atomicWrite was called, and the safeRead that ran
\* next to it has finished, P holds the serialization of C.
C26_ReadKeepsWrite ==
    \A q \in Procs, p \in Procs :
        (/\ Returned(q, "atomicWrite")
         /\ inv[q].ret.kind = "ok"
         /\ Returned(p, "safeRead"))
        => primaryFile = Serialize(inv[q].data)

\* C27. Recovery skips a backup only when it cannot be read or parsed: a
\* safeRead that found the primary failing verification and returns content
\* returns the newest backup that parsed when it started, also when a promoting
\* write failed on the way.
C27_NewestParseable ==
    \A p \in Procs :
        (RecoveryCase(p) /\ inv[p].ret.kind = "ok")
        => inv[p].ret.val = JSONparse(NewestParseable(inv[p].pre.backups).data).val

\* C28. Takeover after a crashed holder is live: an atomicWrite called more than
\* LOCK_TIMEOUT after the call before it was killed (and overlapped by no
\* other call) does not fail to get the lock, whatever lock file the killed call
\* left, an empty one included.
C28_TakeoverLive ==
    \A p \in Procs :
        (/\ inv[p].op = "atomicWrite"
         /\ inv[p].alone
         /\ inv[p].expect.ret.kind = "killed"
         /\ inv[p].pc # "idle"
         /\ inv[p].lockTs - inv[p].expect.ret.at > LOCK_TIMEOUT)
        => (inv[p].err.code \notin LockErrors /\ inv[p].pc # "sleep")

\* The order of atomicWrite's steps between createLock and releaseLock.
StepOrder ==
    {<<"fillLock", "createBackup">>, <<"createBackup", "writeTemp">>,
     <<"writeTemp", "writeChecksumTemp">>, <<"writeChecksumTemp", "rename">>,
     <<"rename", "verify">>, <<"verify", "cleanupBackups">>,
     <<"cleanupBackups", "releaseLock">>,
     <<"rename", "catch">>, <<"verify", "catch">>, <<"catch", "releaseLock">>}

\* C29. Step ordering of a write: an atomicWrite (one no other call overlaps)
\* goes through lock creation, snapshot, temp data, temp checksum, the two
\* renames, verification, pruning, lock deletion in this order, one step changing
\* only its own file; P and P.checksum change only in the rename step, while
\* this invocation's lock is in place, also when one rename fails; pruning
\* starts only when verification has succeeded (for every step the process
\* lives to take).
C29_StepOrder ==
    [][\A p \in Procs :
         (/\ inv'[p] # inv[p]
          /\ InWrite(inv[p])
          /\ inv[p].alone
          /\ inv'[p].ret.kind # "killed")
         => (/\ (inv[p].pc \in {"fillLock", "createBackup", "writeTemp",
                                "writeChecksumTemp", "rename", "verify",
                                "cleanupBackups"}
                  /\ inv'[p].pc # inv[p].pc)
                  => <<inv[p].pc, inv'[p].pc>> \in StepOrder
             /\ (inv[p].pc = "catch" /\ inv[p].lockPath) => inv'[p].pc = "releaseLock"
             /\ (inv[p].pc = "releaseLock")
                  => (~inv'[p].lockPath /\ ~lockFile'.exists
                      /\ inv'[p].pc \notin {"createBackup", "writeTemp",
                                            "writeChecksumTemp", "rename",
                                            "cleanupBackups"})
             /\ (primaryFile' # primaryFile \/ checksumFile' # checksumFile)
                  => (/\ inv[p].pc = "rename"
                      /\ inv[p].lockPath
                      /\ lockFile.exists /\ lockFile.pid = p
                      /\ lockFile' = lockFile)
             /\ backupDir' # backupDir
                  => (inv[p].pc \in {"createBackup", "cleanupBackups"} /\ inv[p].lockPath)
             /\ tempFile' # tempFile
                  => (inv[p].pc \in {"writeTemp", "rename", "catch"}
                      /\ (inv[p].pc = "writeTemp") = (tempFile' # NoFile))
             /\ checksumTemp' # checksumTemp
                  => (inv[p].pc \in {"writeChecksumTemp", "rename", "catch"}
                      /\ (inv[p].pc = "writeChecksumTemp") = (checksumTemp' # NoFile))
             /\ lockFile' # lockFile
                  => inv[p].pc \in {"unlinkLock", "openLock", "fillLock", "releaseLock"}
             /\ inv'[p].pc = "rename"
                  => (/\ tempFile' = Serialize(inv'[p].data) \/ "data" \in inv'[p].renamed
                      /\ checksumTemp' = generateChecksum(Serialize(inv'[p].data))
                            \/ "checksum" \in inv'[p].renamed)
             /\ (inv'[p].pc = "cleanupBackups" /\ inv[p].pc # "cleanupBackups")
                  => (/\ inv[p].renamed = {"data", "checksum"}
                      /\ ~inv[p].renameFailed
                      /\ VerifyTexts(primaryFile, checksumFile).valid))]_vars

\* C29's case: a write whose rename of the checksum failed after P had been
\* replaced has gone through catch and release and raised.
C29_Witness ==
    \E p \in Procs :
        /\ Returned(p, "atomicWrite")
        /\ inv[p].alone
        /\ inv[p].ret.kind = "error"
        /\ inv[p].renamed = {"data", "checksum"}
        /\ inv[p].renameFailed
        /\ primaryFile = Serialize(inv[p].data)
        /\ primaryFile # inv[p].pre.primary
        /\ ~lockFile.exists

\* The notes of the collection stored in P.
Stored ==
    LET r == JSONparse(primaryFile)
    IN  IF r.ok THEN {r.val.val[i] : i \in 1..Len(r.val.val)} ELSE {}

\* C30. HTTP layer, no lost create: once no request is running, every note whose
\* POST /api/notes was answered 201 is in the collection stored in P (no DELETE
\* is ever sent); two overlapping creates answered 201 leave both notes.
C30_NoLostCreate ==
    (\A q \in Procs : ~Active(q))
    => \A p \in Procs :
          (inv[p].req.kind = "POST" /\ inv[p].req.status = 201)
          => inv[p].req.note \in Stored

====
